---- MODULE Spec2Model ----
(***************************************************************************)
(* Timetable candidate generator of src/Class22.py: generate_schedules     *)
(* and the handlers of main() that add a course, generate schedules and    *)
(* re-apply the sort policy to the stored result lists.                    *)
(*                                                                         *)
(* The category strings of the source are written "Required" for '必修'    *)
(* and "Elective" for '選修'.  The display-only fields teacher and notes   *)
(* of Course are left out.  A schedule is the 7-tuple of the source as a   *)
(* record with the field names of the tuple's comment (line 125).          *)
(***************************************************************************)
EXTENDS Integers, Sequences, FiniteSets, TLC

\* ------------------------------------------------------------------ bounds
MaxCourses == 3
MaxBudget == 1
MaxEnumCourses == 4
MaxEnumBudget == 2

\* default of the max_schedules parameter
DefaultMaxSchedules == 1000

\* ------------------------------------------------------- input value sets
SortOptions == {"P1", "P2"}
Budgets == (0..MaxBudget) \cup {DefaultMaxSchedules}
Mon1 == <<"Mon", 1>>
Tue2 == <<"Tue", 2>>

\* dataclass Course
Course(n, t, cid, cr, pr, ts, ms, te) ==
    [name |-> n, type |-> t, class_id |-> cid, credits |-> cr, priority |-> pr,
     time_slots |-> ts, must_select |-> ms, temporarily_exclude |-> te]

\* The sections a user can enter: two courses, A and B, of two classes each.
\* The time-slot list of the form is appended to with no duplicate check
\* (line 281), so <<Mon1, Mon1>> is a list the form can submit.
SectionsA1 ==
    {Course("A", "Required", "1", 1, 1, <<Mon1>>, FALSE, FALSE),
     Course("A", "Required", "1", 1, 1, <<Mon1>>, TRUE, TRUE),
     Course("A", "Elective", "1", 1, 1, <<Mon1>>, TRUE, TRUE),
     Course("A", "Required", "1", 2, 2, <<Mon1, Tue2>>, FALSE, FALSE),
     Course("A", "Required", "1", 1, 1, <<Mon1, Mon1>>, FALSE, FALSE)}

SectionsA2 ==
    {Course("A", "Required", "2", 2, 1, <<Mon1>>, FALSE, FALSE),
     Course("A", "Elective", "2", 1, 2, <<Tue2>>, FALSE, FALSE),
     Course("A", "Required", "2", 1, 1, <<Mon1, Tue2>>, TRUE, FALSE)}

SectionsB1 ==
    {Course("B", "Required", "1", 1, 1, <<Mon1>>, FALSE, FALSE),
     Course("B", "Required", "1", 2, 2, <<Mon1, Tue2>>, FALSE, FALSE),
     Course("B", "Required", "1", 1, 1, <<Mon1>>, FALSE, TRUE)}

SectionsB2 ==
    {Course("B", "Elective", "2", 1, 1, <<Tue2>>, FALSE, FALSE)}

Sections == SectionsA1 \cup SectionsA2 \cup SectionsB1 \cup SectionsB2

\* A smaller choice of sections, of three courses, for pools of more sections
\* and larger budgets: the groups differ in must-select and in priority.
EnumSections ==
    {Course("A", "Required", "1", 1, 1, <<Mon1>>, FALSE, FALSE),
     Course("A", "Elective", "2", 1, 2, <<Tue2>>, FALSE, FALSE),
     Course("A", "Required", "2", 1, 1, <<Mon1, Tue2>>, TRUE, FALSE),
     Course("B", "Required", "1", 1, 1, <<Mon1>>, FALSE, FALSE),
     Course("B", "Elective", "2", 1, 1, <<Tue2>>, FALSE, FALSE),
     Course("C", "Elective", "1", 1, 1, <<Tue2>>, FALSE, FALSE)}

EnumBudgets == (0..MaxEnumBudget) \cup {DefaultMaxSchedules}

\* ------------------------------------------------------- sequence helpers
RECURSIVE SumSeq(_)
SumSeq(s) == IF s = <<>> THEN 0 ELSE Head(s) + SumSeq(Tail(s))

RECURSIVE Flatten(_)
Flatten(ss) == IF ss = <<>> THEN <<>> ELSE Head(ss) \o Flatten(Tail(ss))

Range(s) == {s[i] : i \in 1..Len(s)}

\* the elements of s in order of first appearance (dict key insertion order)
RECURSIVE FirstAppearance(_)
FirstAppearance(s) ==
    IF s = <<>> THEN <<>>
    ELSE LET front == FirstAppearance(SubSeq(s, 1, Len(s) - 1))
             last == s[Len(s)]
         IN IF last \in Range(front) THEN front ELSE Append(front, last)

\* Python tuple comparison on integer tuples of equal length
RECURSIVE TupleLess(_, _)
TupleLess(a, b) ==
    IF a = <<>> THEN FALSE
    ELSE IF Head(a) # Head(b) THEN Head(a) < Head(b)
    ELSE TupleLess(Tail(a), Tail(b))

\* insert item x (a <<key, value>> pair) after every item whose key is not
\* greater: the insertion step of a stable sort
RECURSIVE InsertStable(_, _)
InsertStable(sorted, x) ==
    IF sorted = <<>> THEN <<x>>
    ELSE IF TupleLess(x[1], Head(sorted)[1]) THEN <<x>> \o sorted
    ELSE <<Head(sorted)>> \o InsertStable(Tail(sorted), x)

RECURSIVE StableSort(_)
StableSort(keyed) ==
    IF keyed = <<>> THEN <<>>
    ELSE InsertStable(StableSort(SubSeq(keyed, 1, Len(keyed) - 1)), keyed[Len(keyed)])

Values(keyed) == [i \in 1..Len(keyed) |-> keyed[i][2]]

\* the integers of set S in ascending order: sorted(schedules.keys())
RECURSIVE SortedInts(_)
SortedInts(S) ==
    IF S = {} THEN <<>>
    ELSE LET m == CHOOSE x \in S : \A y \in S : x <= y
         IN <<m>> \o SortedInts(S \ {m})

\* variant: the first option varies fastest
RECURSIVE Product_first_fastest(_)
Product_first_fastest(options) ==
    IF options = <<>> THEN << <<>> >>
    ELSE LET rest == Product_first_fastest(Tail(options))
             first == Head(options)
         IN Flatten([j \in 1..Len(rest) |->
                       [i \in 1..Len(first) |-> <<first[i]>> \o rest[j]]])

\* itertools.product(*options): the last option varies fastest
RECURSIVE Product(_)
Product(options) ==
    IF options = <<>> THEN << <<>> >>
    ELSE LET rest == Product(Tail(options))
             first == Head(options)
         IN Flatten([i \in 1..Len(first) |->
                       [j \in 1..Len(rest) |-> <<first[i]>> \o rest[j]]])

\* ------------------------------------------------------ generate_schedules
\* variant: a must-select section that is excluded itself does not count
must_select_names_available(required_courses) ==
    {c.name : c \in {x \in Range(required_courses) :
                        x.must_select /\ ~x.temporarily_exclude}}

\* line 59: names of the required courses marked must-select
must_select_names(required_courses) ==
    {c.name : c \in {x \in Range(required_courses) : x.must_select}}

\* line 62: drop the temporarily excluded courses
NotExcluded(c) == ~c.temporarily_exclude

available_courses(courses) == SelectSeq(courses, NotExcluded)

\* variant: the names are looked up in the whole pool, excluded courses too
missing_must_select_unfiltered(courses, required_courses) ==
    {name \in must_select_names(required_courses) :
        ~\E i \in 1..Len(courses) : courses[i].name = name}

\* lines 65-66: the must-select names with no available course
missing_must_select(courses, required_courses) ==
    LET available == available_courses(courses)
    IN {name \in must_select_names(required_courses) :
           ~\E i \in 1..Len(available) : available[i].name = name}

\* variant: the key of line 78 with the priority ascending
group_sort_key_ascending(c) == <<IF c.must_select THEN 0 ELSE 1, c.priority>>

\* line 78: key=lambda c: (not c.must_select, -c.priority)
group_sort_key(c) == <<IF c.must_select THEN 0 ELSE 1, -c.priority>>

\* lines 71-78: the group of a name, must-select first, then by priority
grouped_courses(available, name) ==
    LET HasName(c) == c.name = name
        group == SelectSeq(available, HasName)
    IN Values(StableSort([i \in 1..Len(group) |->
                            <<group_sort_key(group[i]), group[i]>>]))

\* variant: one group per available course instead of one per name
course_names_repeated(available) ==
    [i \in 1..Len(available) |-> available[i].name]

\* line 81: the keys of grouped_courses, in insertion order
course_names(available) ==
    FirstAppearance([i \in 1..Len(available) |-> available[i].name])

\* line 82
course_options(available) ==
    LET names == course_names(available)
    IN [k \in 1..Len(names) |-> grouped_courses(available, names[k])]

\* line 93
has_all_must_select(combo, names) ==
    \A name \in names : \E i \in 1..Len(combo) : combo[i].name = name

\* lines 99-104: every (key, course) pair appended to time_slot_map, in order
slot_entries(combo) ==
    Flatten([i \in 1..Len(combo) |->
               [j \in 1..Len(combo[i].time_slots) |->
                   <<combo[i].time_slots[j], combo[i]>>]])

\* the keys of time_slot_map, in insertion order
time_slot_keys(entries) ==
    FirstAppearance([k \in 1..Len(entries) |-> entries[k][1]])

\* time_slot_map[key]: the list the courses were appended to
time_slot_map(entries, key) ==
    LET AtKey(e) == e[1] = key
    IN Values(SelectSeq(entries, AtKey))

\* lines 109-112: the slots whose list has more than one course
conflicts_of(combo) ==
    LET entries == slot_entries(combo)
        keys == time_slot_keys(entries)
        course_list == [k \in 1..Len(keys) |-> time_slot_map(entries, keys[k])]
        slots == [k \in 1..Len(keys) |-> <<keys[k][1], keys[k][2], course_list[k]>>]
        IsConflict(slot) == Len(slot[3]) > 1
    IN SelectSeq(slots, IsConflict)

\* lines 107-114: overlapping courses minus one, summed over the conflict slots
conflict_count_of(combo) ==
    LET conflicts == conflicts_of(combo)
    IN SumSeq([k \in 1..Len(conflicts) |-> Len(conflicts[k][3]) - 1])

\* the conflicts field: None when there is no conflict (lines 122-123)
None == [none |-> TRUE, list |-> <<>>]

SomeList(l) == [none |-> FALSE, list |-> l]

credits_of_type(combo, t) ==
    SumSeq([i \in 1..Len(combo) |-> IF combo[i].type = t THEN combo[i].credits ELSE 0])

\* lines 116-128: the tuple appended for one combination
Schedule(combo) ==
    LET conflict_count == conflict_count_of(combo)
    IN
    [combo |-> combo,
     total_priority |-> SumSeq([i \in 1..Len(combo) |-> combo[i].priority]),
     total_credits |-> SumSeq([i \in 1..Len(combo) |-> combo[i].credits]),
     req_credits |-> credits_of_type(combo, "Required"),
     ele_credits |-> credits_of_type(combo, "Elective"),
     conflicts |-> IF conflict_count = 0 THEN None
                   ELSE SomeList(conflicts_of(combo)),
     conflict_count |-> conflict_count]

\* variant: the budget test of line 88 with > in place of >=
RECURSIVE enumerate_off_by_one(_, _, _, _, _)
enumerate_off_by_one(combos, i, names, max_schedules, acc) ==
    IF i > Len(combos) THEN [appended |-> acc, warned |-> FALSE]
    ELSE IF Len(acc) > max_schedules THEN [appended |-> acc, warned |-> TRUE]
    ELSE IF ~has_all_must_select(combos[i], names)
         THEN enumerate_off_by_one(combos, i + 1, names, max_schedules, acc)
    ELSE enumerate_off_by_one(combos, i + 1, names, max_schedules,
                              Append(acc, Schedule(combos[i])))

\* lines 85-129: the loop over the product; the result is the schedules in the
\* order they were appended and whether the budget warning was given
RECURSIVE enumerate(_, _, _, _, _)
enumerate(combos, i, names, max_schedules, acc) ==
    IF i > Len(combos) THEN [appended |-> acc, warned |-> FALSE]
    ELSE IF Len(acc) >= max_schedules THEN [appended |-> acc, warned |-> TRUE]
    ELSE IF ~has_all_must_select(combos[i], names)
         THEN enumerate(combos, i + 1, names, max_schedules, acc)
    ELSE enumerate(combos, i + 1, names, max_schedules, Append(acc, Schedule(combos[i])))

\* variant: the key of line 134 without the credits
schedule_sort_key_priority_only(x) == <<-x.total_priority>>

\* line 134: key=lambda x: (-x[1], -x[2])
schedule_sort_key(x) == <<-x.total_priority, -x.total_credits>>

\* lines 132-139: the buckets by conflict count, each sorted, in ascending
\* order of the conflict count
flatten_schedules(appended) ==
    LET counts == SortedInts({appended[i].conflict_count : i \in 1..Len(appended)})
        bucket(cc) == LET InBucket(x) == x.conflict_count = cc
                      IN SelectSeq(appended, InBucket)
        sorted(cc) == LET b == bucket(cc)
                      IN Values(StableSort([i \in 1..Len(b) |->
                                              <<schedule_sort_key(b[i]), b[i]>>]))
    IN Flatten([k \in 1..Len(counts) |-> sorted(counts[k])])

\* lines 53-141.  missing: the must-select names that can be reported by line
\* 67 (the set is iterated in an unspecified order); all_schedules: the list
\* returned; warned: the warning of line 89 was given
generate_schedules(courses, required_courses, elective_courses, max_schedules) ==
    LET missing == missing_must_select(courses, required_courses)
        available == available_courses(courses)
        run == enumerate(Product(course_options(available)), 1,
                         must_select_names(required_courses), max_schedules, <<>>)
    IN IF missing # {}
       THEN [missing |-> missing, all_schedules |-> <<>>, warned |-> FALSE]
       ELSE [missing |-> {}, all_schedules |-> flatten_schedules(run.appended),
             warned |-> run.warned]

\* ------------------------------------------------------------------- main
VARIABLES
    courses,              \* st.session_state.courses
    generated_schedules,  \* st.session_state.generated_schedules (no conflict)
    conflict_schedules,   \* st.session_state.conflict_schedules (with conflicts)
    sort_option,          \* the radio's value in the last run that read it
    op,                   \* the handler that ran last
    max_schedules,        \* the budget of the last call of generate_schedules
    all_schedules,        \* the list that call returned (a local of main)
    messages              \* what the last handler reported, in order

vars == <<courses, generated_schedules, conflict_schedules, sort_option, op,
          max_schedules, all_schedules, messages>>

Msg(kind, name) == [kind |-> kind, name |-> name]

\* variant: the keys of the two options exchanged
sort_key_swapped(schedule, option) ==
    IF option = "P1"
    THEN <<-schedule.total_priority, schedule.conflict_count>>
    ELSE <<schedule.conflict_count, -schedule.total_priority>>

\* lines 439-448 and 480-488 (the two copies are the same function)
sort_key(schedule, option) ==
    IF option = "P1"
    THEN <<schedule.conflict_count, -schedule.total_priority>>
    ELSE <<-schedule.total_priority, schedule.conflict_count>>

\* list.sort(key=sort_key): stable
sort_schedules(schedules, option) ==
    Values(StableSort([i \in 1..Len(schedules) |->
                         <<sort_key(schedules[i], option), schedules[i]>>]))

\* line 476
IsConflictFree(s) == s.conflict_count = 0

\* variant: the test of line 477 with >= in place of >
HasConflict_or_none(s) == s.conflict_count >= 0

\* line 477
HasConflict(s) == s.conflict_count > 0

IsRequired(c) == c.type = "Required"

IsElective(c) == c.type = "Elective"

\* variant: the two lists are stored before the test of line 473
stored_after_generate_unchecked(all, option, generated, conflict) ==
    [generated |-> sort_schedules(SelectSeq(all, IsConflictFree), option),
     conflict |-> sort_schedules(SelectSeq(all, HasConflict), option)]

\* lines 473-495: the two stored lists after a generation request, given the
\* list returned: kept when it is empty, else its two parts, sorted
stored_after_generate(all, option, generated, conflict) ==
    IF all = <<>>
    THEN [generated |-> generated, conflict |-> conflict]
    ELSE [generated |-> sort_schedules(SelectSeq(all, IsConflictFree), option),
          conflict |-> sort_schedules(SelectSeq(all, HasConflict), option)]

\* lines 217-227
Init ==
    /\ courses = <<>>
    /\ generated_schedules = <<>>
    /\ conflict_schedules = <<>>
    /\ sort_option = "P1"
    /\ op = "init"
    /\ max_schedules = 0
    /\ all_schedules = <<>>
    /\ messages = <<>>

\* lines 303-332: the submit button of the add-course form of course_type.
\* time_slots is the list assembled by the add-time button (lines 279-283).
\* The form reports an error and changes nothing when a field is empty (line
\* 305) or the pair (name, class_id) is in the pool already (lines 309-315).
AddCourse(course_type, name, class_id, credits, priority, time_slots, must_select, temporarily_exclude) ==
    /\ name # "" /\ class_id # "" /\ time_slots # <<>>
    /\ ~\E i \in 1..Len(courses) :
          courses[i].name = name /\ courses[i].class_id = class_id
    /\ op' = "add"
    /\ messages' = <<Msg("Added", name)>>
    /\ courses' = Append(courses,
                         Course(name, course_type, class_id, credits, priority,
                                time_slots, must_select, temporarily_exclude))
    /\ all_schedules' = <<>>
    /\ max_schedules' = 0
    /\ UNCHANGED <<generated_schedules, conflict_schedules, sort_option>>

\* lines 436-456: the apply-sort button, with the radio at option
ApplySort(option) ==
    /\ op' = "sort"
    /\ sort_option' = option
    /\ IF generated_schedules # <<>> \/ conflict_schedules # <<>>
       THEN /\ generated_schedules' = sort_schedules(generated_schedules, option)
            /\ conflict_schedules' = sort_schedules(conflict_schedules, option)
            /\ messages' = <<Msg("Sorted", "")>>
       ELSE /\ messages' = <<Msg("NothingToSort", "")>>
            /\ UNCHANGED <<generated_schedules, conflict_schedules>>
    /\ all_schedules' = <<>>
    /\ max_schedules' = 0
    /\ UNCHANGED courses

\* lines 461-498: the generate button, with the radio at option.  main passes
\* no budget, so generate_schedules runs with DefaultMaxSchedules; the other
\* budgets are those a caller of generate_schedules can pass.
Generate(option, budget) ==
    /\ op' = "generate"
    /\ sort_option' = option
    /\ max_schedules' = budget
    /\ UNCHANGED courses
    /\ IF courses = <<>>
       THEN /\ messages' = <<Msg("EmptyPool", "")>>
            /\ all_schedules' = <<>>
            /\ UNCHANGED <<generated_schedules, conflict_schedules>>
       ELSE IF SelectSeq(courses, IsRequired) = <<>>
       THEN /\ messages' = <<Msg("NoRequired", "")>>
            /\ all_schedules' = <<>>
            /\ UNCHANGED <<generated_schedules, conflict_schedules>>
       ELSE LET result == generate_schedules(courses, SelectSeq(courses, IsRequired),
                                             SelectSeq(courses, IsElective), budget)
                warning == IF result.warned THEN <<Msg("BudgetReached", "")>> ELSE <<>>
                stored == stored_after_generate(result.all_schedules, option,
                                                generated_schedules, conflict_schedules)
            IN /\ all_schedules' = result.all_schedules
               /\ generated_schedules' = stored.generated
               /\ conflict_schedules' = stored.conflict
               /\ IF result.all_schedules = <<>>
                  THEN \/ /\ result.missing = {}
                          /\ messages' = warning \o <<Msg("NoSchedules", "")>>
                       \/ \E name \in result.missing :
                             messages' = <<Msg("MissingMustSelect", name),
                                           Msg("NoSchedules", "")>>
                  ELSE messages' = warning \o <<Msg("Generated", "")>>

Next ==
    \/ \E c \in Sections :
            /\ Len(courses) < MaxCourses
            /\ AddCourse(c.type, c.name, c.class_id, c.credits, c.priority, c.time_slots,
                      c.must_select, c.temporarily_exclude)
    \/ \E option \in SortOptions : ApplySort(option)
    \/ \E option \in SortOptions, budget \in Budgets : Generate(option, budget)

Spec == Init /\ [][Next]_vars

\* the same handlers over EnumSections and EnumBudgets
NextEnum ==
    \/ \E c \in EnumSections :
            /\ Len(courses) < MaxEnumCourses
            /\ AddCourse(c.type, c.name, c.class_id, c.credits, c.priority, c.time_slots,
                         c.must_select, c.temporarily_exclude)
    \/ \E option \in SortOptions : ApplySort(option)
    \/ \E option \in SortOptions, budget \in EnumBudgets : Generate(option, budget)

SpecEnum == Init /\ [][NextEnum]_vars

\* ----------------------------------------------------------------- claims
HasMessage(kind) == \E k \in 1..Len(messages) : messages[k].kind = kind

\* generate_schedules was called by the last handler
Called == op = "generate" /\ \E i \in 1..Len(courses) : courses[i].type = "Required"

\* the names of the Required must-select sections that have no section left
\* once the temporarily excluded ones are dropped
UnavailableMustSelect ==
    {courses[i].name : i \in
        {j \in 1..Len(courses) :
            /\ courses[j].type = "Required"
            /\ courses[j].must_select
            /\ \A k \in 1..Len(courses) :
                  courses[k].name = courses[j].name => courses[k].temporarily_exclude}}

\* C1: when a Required section is must-select and every section of its name is
\* temporarily excluded, generate_schedules reports such a name as missing
\* and returns the empty list.
C1_MissingMustSelectFails ==
    (Called /\ UnavailableMustSelect # {}) =>
        /\ all_schedules = <<>>
        /\ \E k \in 1..Len(messages) :
              /\ messages[k].kind = "MissingMustSelect"
              /\ messages[k].name \in UnavailableMustSelect

C1_Witness ==
    /\ Called
    /\ UnavailableMustSelect # {}
    /\ HasMessage("MissingMustSelect")
    /\ \E i \in 1..Len(courses) : ~courses[i].temporarily_exclude

\* C2: generate_schedules returns at most max_schedules candidates; with
\* max_schedules = 0 it returns none and main reports that no schedule could
\* be generated.
C2_BudgetBound ==
    /\ Len(all_schedules) <= max_schedules
    /\ (Called /\ max_schedules = 0) =>
          (all_schedules = <<>> /\ HasMessage("NoSchedules"))

C2_Witness ==
    /\ Called
    /\ max_schedules = 1
    /\ Len(all_schedules) = 1
    /\ HasMessage("BudgetReached")

\* the names that have a section that is not temporarily excluded
AvailableNames ==
    {courses[i].name : i \in {j \in 1..Len(courses) : ~courses[j].temporarily_exclude}}

\* C3: every candidate returned holds one section of each name that has a
\* non-excluded section, and nothing else: as many sections as there are such
\* names, no two of the same name, each a non-excluded section of the pool.
C3_OneSectionPerName ==
    \A k \in 1..Len(all_schedules) :
        LET combo == all_schedules[k].combo
        IN /\ Len(combo) = Cardinality(AvailableNames)
           /\ {combo[i].name : i \in 1..Len(combo)} = AvailableNames
           /\ \A i, j \in 1..Len(combo) : combo[i].name = combo[j].name => i = j
           /\ \A i \in 1..Len(combo) :
                 combo[i] \in Range(courses) /\ ~combo[i].temporarily_exclude

C3_Witness ==
    /\ Called
    /\ Len(all_schedules) >= 2
    /\ \E i \in 1..Len(courses) :
          courses[i].temporarily_exclude /\ courses[i].name \notin AvailableNames

\* the slots some section of the combination occupies
SlotsOf(combo) == UNION {Range(combo[i].time_slots) : i \in 1..Len(combo)}

\* the number of sections of the combination that occupy the slot
Occupants(combo, slot) ==
    Cardinality({i \in 1..Len(combo) : slot \in Range(combo[i].time_slots)})

RECURSIVE SumOver(_, _, _)
SumOver(S, combo, acc) ==
    IF S = {} THEN acc
    ELSE LET slot == CHOOSE x \in S : TRUE
         IN SumOver(S \ {slot}, combo,
                    acc + (IF Occupants(combo, slot) > 1
                           THEN Occupants(combo, slot) - 1 ELSE 0))

\* C4: conflict_count of every candidate returned is the sum over the slots
\* of max(0, occupants - 1), occupants being the number of its sections in the
\* slot; and conflict_count is 0 exactly when the conflicts list is absent.
C4_ConflictCountIsSum ==
    \A k \in 1..Len(all_schedules) :
        /\ all_schedules[k].conflict_count =
              SumOver(SlotsOf(all_schedules[k].combo), all_schedules[k].combo, 0)
        /\ (all_schedules[k].conflict_count = 0) <=> all_schedules[k].conflicts.none

\* C5 as claimed: a must-select section of any category, excluded or not,
\* makes its name present in every candidate returned.
C5_AnyMustSelectPresent ==
    \A i \in 1..Len(courses) :
        courses[i].must_select =>
            \A k \in 1..Len(all_schedules) :
                \E j \in 1..Len(all_schedules[k].combo) :
                    all_schedules[k].combo[j].name = courses[i].name

\* C5, amended: a must-select section of the Required category, excluded or
\* not, makes its name present in every candidate returned.
C5_RequiredMustSelectPresent ==
    \A i \in 1..Len(courses) :
        (courses[i].must_select /\ courses[i].type = "Required") =>
            \A k \in 1..Len(all_schedules) :
                \E j \in 1..Len(all_schedules[k].combo) :
                    all_schedules[k].combo[j].name = courses[i].name

C5_Witness ==
    /\ Called
    /\ all_schedules # <<>>
    /\ \E i \in 1..Len(courses) :
          /\ courses[i].must_select
          /\ courses[i].type = "Required"
          /\ courses[i].temporarily_exclude

\* a generation request that fails: the pool is empty, has no Required
\* section, has a must-select name with no available section, or no candidate
\* is produced
GenerationFails ==
    /\ op' = "generate"
    /\ \/ courses = <<>>
       \/ ~\E i \in 1..Len(courses) : courses[i].type = "Required"
       \/ UnavailableMustSelect # {}
       \/ all_schedules' = <<>>

\* C6: a generation request that fails leaves the pool and the two stored
\* lists as they were.
C6_FailedGenerationKeepsState ==
    [][GenerationFails =>
          UNCHANGED <<courses, generated_schedules, conflict_schedules>>]_vars

C6_Witness ==
    /\ op = "generate"
    /\ all_schedules = <<>>
    /\ HasMessage("NoSchedules")
    /\ generated_schedules # <<>>
    /\ conflict_schedules # <<>>

Count(x, seq) == Cardinality({i \in 1..Len(seq) : seq[i] = x})

\* C7: the stored conflict-free list holds only candidates with no conflict,
\* the stored with-conflicts list only candidates with a conflict, and right
\* after a successful generation every candidate returned is in exactly one
\* of the two lists, once.
C7_Partition ==
    /\ \A i \in 1..Len(generated_schedules) : generated_schedules[i].conflict_count = 0
    /\ \A i \in 1..Len(conflict_schedules) : conflict_schedules[i].conflict_count > 0
    /\ (op = "generate" /\ all_schedules # <<>>) =>
          /\ Len(generated_schedules) + Len(conflict_schedules) = Len(all_schedules)
          /\ \A k \in 1..Len(all_schedules) :
                Count(all_schedules[k], generated_schedules)
                    + Count(all_schedules[k], conflict_schedules) = 1

C7_Witness ==
    /\ op = "generate"
    /\ Len(all_schedules) >= 2
    /\ generated_schedules # <<>>
    /\ conflict_schedules # <<>>

\* the order of policy P1 holds between every two candidates of the list
P1Ordered(list) ==
    \A i, j \in 1..Len(list) :
        i < j =>
            /\ list[i].conflict_count <= list[j].conflict_count
            /\ list[i].conflict_count = list[j].conflict_count =>
                  list[i].total_priority >= list[j].total_priority

\* C8: after apply-sort under P1 neither stored list has a candidate of higher
\* conflict_count before one of lower conflict_count, nor, among equal
\* conflict_count, one of lower total_priority before one of higher.
C8_P1Order ==
    (op = "sort" /\ sort_option = "P1") =>
        (P1Ordered(generated_schedules) /\ P1Ordered(conflict_schedules))

C8_Witness ==
    /\ op = "sort"
    /\ sort_option = "P1"
    /\ \E i, j \in 1..Len(conflict_schedules) :
          /\ conflict_schedules[i].conflict_count < conflict_schedules[j].conflict_count
          /\ conflict_schedules[i].total_priority < conflict_schedules[j].total_priority

\* C9: the list generate_schedules returns is in the order of ascending
\* conflict_count, then descending total_priority, then descending
\* total_credits.
C9_ThreeKeyOrder ==
    \A k \in 1..(Len(all_schedules) - 1) :
        LET a == all_schedules[k]
            b == all_schedules[k + 1]
        IN \/ a.conflict_count < b.conflict_count
           \/ /\ a.conflict_count = b.conflict_count
              /\ \/ a.total_priority > b.total_priority
                 \/ /\ a.total_priority = b.total_priority
                    /\ a.total_credits >= b.total_credits

C9_Witness ==
    /\ op = "generate"
    /\ \E k \in 1..(Len(all_schedules) - 1) :
          /\ all_schedules[k].conflict_count = all_schedules[k + 1].conflict_count
          /\ all_schedules[k].total_priority = all_schedules[k + 1].total_priority
          /\ all_schedules[k].total_credits > all_schedules[k + 1].total_credits

\* no slot is occupied by two sections of the combination
PairwiseDisjoint(combo) ==
    \A i, j \in 1..Len(combo) :
        i # j => Range(combo[i].time_slots) \cap Range(combo[j].time_slots) = {}

\* C10: a slot is a conflict of a candidate only when two distinct sections
\* of it occupy the slot, a slot listed twice by one section counting once; so
\* a candidate of sections on pairwise disjoint slots has conflict_count 0.
C10_ConflictNeedsTwoSections ==
    \A k \in 1..Len(all_schedules) :
        LET s == all_schedules[k]
        IN /\ \A c \in 1..Len(s.conflicts.list) :
                 Cardinality(Range(s.conflicts.list[c][3])) >= 2
           /\ PairwiseDisjoint(s.combo) => s.conflict_count = 0

\* the positions in the pool of the sections that are not excluded
Avail == {i \in 1..Len(courses) : ~courses[i].temporarily_exclude}

\* the available sections of a name
GroupOf(name) == {i \in Avail : courses[i].name = name}

\* the position in the pool of the first available section of a name
FirstOf(name) == CHOOSE i \in GroupOf(name) : \A j \in GroupOf(name) : i <= j

\* section i comes before section j of the same group: must-select first, then
\* the higher priority, and the earlier in the pool where both are equal
Precedes(i, j) ==
    \/ courses[i].must_select /\ ~courses[j].must_select
    \/ /\ courses[i].must_select = courses[j].must_select
       /\ \/ courses[i].priority > courses[j].priority
          \/ courses[i].priority = courses[j].priority /\ i < j

\* the place of section i in its group, from 0
PlaceInGroup(i) == Cardinality({j \in GroupOf(courses[i].name) : Precedes(j, i)})

\* the product of the sizes of the groups of the names
RECURSIVE Weight(_)
Weight(names) ==
    IF names = {} THEN 1
    ELSE LET m == CHOOSE x \in names : TRUE
         IN Cardinality(GroupOf(m)) * Weight(names \ {m})

LaterNames(name) == {m \in AvailableNames : FirstOf(m) > FirstOf(name)}

\* the tuples of the product: one available section for each name
Choices == {f \in [AvailableNames -> Avail] : \A n \in AvailableNames : f[n] \in GroupOf(n)}

RECURSIVE PositionSum(_, _)
PositionSum(f, names) ==
    IF names = {} THEN 0
    ELSE LET n == CHOOSE x \in names : TRUE
         IN PlaceInGroup(f[n]) * Weight(LaterNames(n)) + PositionSum(f, names \ {n})

\* the place of a tuple in the enumeration, from 0: the first group varies
\* slowest, the last group fastest
Position(f) == PositionSum(f, AvailableNames)

\* the first max_schedules tuples of the enumeration, each as the set of its
\* sections
FirstTuples ==
    {{courses[f[n]] : n \in AvailableNames} :
        f \in {g \in Choices : Position(g) < max_schedules}}

\* C11: when generate_schedules enumerates (no must-select name is missing),
\* the candidates it returns are exactly the first min(budget, N) tuples of
\* the product, N the product of the group sizes, the groups taken in the
\* order of first appearance of their name among the non-excluded sections,
\* each group must-select first and then by descending priority, the first
\* group varying slowest; each such tuple is returned once.
C11_PositionalTruncation ==
    (Called /\ UnavailableMustSelect = {}) =>
        /\ {Range(all_schedules[k].combo) : k \in 1..Len(all_schedules)} = FirstTuples
        /\ Len(all_schedules) = Cardinality(FirstTuples)

C11_Witness ==
    /\ Called
    /\ UnavailableMustSelect = {}
    /\ max_schedules = 2
    /\ Len(all_schedules) = 2
    /\ Cardinality(Choices) = 4
    /\ \E i \in Avail :
          /\ PlaceInGroup(i) = 0
          /\ i # FirstOf(courses[i].name)
          /\ courses[i] \in Range(all_schedules[1].combo)

\* C12: every candidate stored by a generation request holds at least one
\* section, and at least one section of the Required category, also when the
\* Required sections of the pool are all temporarily excluded.
C12_StoredHasRequired ==
    \A s \in Range(generated_schedules) \cup Range(conflict_schedules) :
        /\ Len(s.combo) >= 1
        /\ \E i \in 1..Len(s.combo) : s.combo[i].type = "Required"

====
